---- MODULE Spec2Model ----
(***************************************************************************)
(* Aero AI chatbot (src/script.js): the search-need scorer, the search     *)
(* aggregator, the chat turn (handleChatSubmit / performWebSearch /        *)
(* handleResponse / callApi) and the conversation store, as one state      *)
(* machine.  Strings are TLA+ strings; the string functions of the code    *)
(* (toLowerCase, trim, split, includes, startsWith, the regular            *)
(* expressions) are computed character by character.  The elements of the  *)
(* page are not state of the model: what is shown on behalf of a turn is   *)
(* entered in the trace of that turn.                                      *)
(***************************************************************************)
EXTENDS Integers, Sequences, FiniteSets, TLC

VARIABLES
    chatInput,            \* chatInput.value
    isGenerating,         \* the in-flight guard
    conversationHistory,  \* messages of the current conversation
    currentChatId,        \* 0 stands for null
    allChats,             \* id -> [title, date, messages]
    localStorage,         \* the blob under 'aero_all_chats'
    typingIndicator,      \* [hidden, text]
    sendButton,           \* [disabled]
    consoleLog,           \* the last line logged by shouldPerformWebSearch
    pc,                   \* where the handleChatSubmit activation is suspended
    wikiResult,           \* the promise of searchWikipedia(query)
    ddgResult,            \* the promise of searchDuckDuckGo(query)
    apiCalls,             \* the callApi calls that have not settled yet
    turnCount,            \* accepted submits so far
    turns,                \* turn -> what was done on its behalf (see NewTurn)
    clock                 \* Date.now(), also the source of fresh chat ids

vars == <<chatInput, isGenerating, conversationHistory, currentChatId, allChats,
          localStorage, typingIndicator, sendButton, consoleLog, pc,
          wikiResult, ddgResult, apiCalls, turnCount, turns, clock>>

-----------------------------------------------------------------------------
(* Bounds of the model *)

\* submits made while no turn is generating, in one run
MaxTurns == 1
\* chats created in one run
MaxChats == 2
\* vocabulary entries joined into one scorer input
MaxWords == 4
\* vocabulary entries joined into a scorer input that is typed twice
MaxRetypedWords == 2
\* turns appended to one session by the store's callers
MaxStored == 3
\* turns of the session found in localStorage when the page is loaded
MaxHistory == 12

-----------------------------------------------------------------------------
(* Strings *)

Char(s, i) == SubSeq(s, i, i)

UpperCase == "ABCDEFGHIJKLMNOPQRSTUVWXYZ"
LowerCase == "abcdefghijklmnopqrstuvwxyz"
Digits == "0123456789"

InStr(c, alphabet) == \E i \in 1..Len(alphabet) : Char(alphabet, i) = c

LowerChar(c) ==
    IF InStr(c, UpperCase)
    THEN Char(LowerCase, CHOOSE i \in 1..Len(UpperCase) : Char(UpperCase, i) = c)
    ELSE c

RECURSIVE toLowerCase(_)
toLowerCase(s) ==
    IF s = "" THEN "" ELSE LowerChar(Char(s, 1)) \o toLowerCase(SubSeq(s, 2, Len(s)))

IsSpace(c) == c \in {" ", "\t", "\n", "\r"}

RECURSIVE trimStart(_)
trimStart(s) ==
    IF s # "" /\ IsSpace(Char(s, 1)) THEN trimStart(SubSeq(s, 2, Len(s))) ELSE s

RECURSIVE trimEnd(_)
trimEnd(s) ==
    IF s # "" /\ IsSpace(Char(s, Len(s))) THEN trimEnd(SubSeq(s, 1, Len(s) - 1)) ELSE s

trim(s) == trimEnd(trimStart(s))

\* s.substring(from) and s.substring(0, to), 0-based as in the code
substringFrom(s, from) == SubSeq(s, from + 1, Len(s))
substringTo(s, to) == SubSeq(s, 1, IF to < Len(s) THEN to ELSE Len(s))

At(s, i, k) == i >= 1 /\ i + Len(k) - 1 <= Len(s) /\ SubSeq(s, i, i + Len(k) - 1) = k

startsWith(s, k) == At(s, 1, k)

includes(s, k) == \E i \in 1..(Len(s) - Len(k) + 1) : At(s, i, k)

\* s.split(/\s+/).length: one piece more than there are runs of whitespace
splitLength(s) ==
    1 + Cardinality({i \in 1..Len(s) :
                        IsSpace(Char(s, i)) /\ (i = 1 \/ ~IsSpace(Char(s, i - 1)))})

\* \w of a regular expression
IsWordChar(c) == InStr(c, LowerCase) \/ InStr(c, UpperCase) \/ InStr(c, Digits) \/ c = "_"

\* /\b(k1|k2|...)\b/
testWordBounded(s, ks) ==
    \E k \in ks : \E i \in 1..(Len(s) - Len(k) + 1) :
        /\ At(s, i, k)
        /\ (i = 1 \/ ~IsWordChar(Char(s, i - 1)))
        /\ (i + Len(k) > Len(s) \/ ~IsWordChar(Char(s, i + Len(k))))

\* /(a1|a2|...)\s+(b1|b2|...)/
testGap(s, as, bs) ==
    \E a \in as : \E b \in bs : \E i \in 1..Len(s) :
        /\ At(s, i, a)
        /\ \E j \in (i + Len(a) + 1)..Len(s) :
              /\ At(s, j, b)
              /\ \A k \in (i + Len(a))..(j - 1) : IsSpace(Char(s, k))

\* /a.*b/ : the dot matches everything but a line terminator
testDotStar(s, a, b) ==
    \E i \in 1..Len(s) :
        /\ At(s, i, a)
        /\ \E j \in (i + Len(a))..Len(s) :
              /\ At(s, j, b)
              /\ \A k \in (i + Len(a))..(j - 1) : Char(s, k) \notin {"\n", "\r"}

-----------------------------------------------------------------------------
(* shouldPerformWebSearch *)

timeKeywords ==
    {"latest", "recent", "current", "today", "now", "this week", "this month",
     "this year", "yesterday", "breaking", "update", "news", "just happened",
     "currently", "ongoing", "live", "real-time", "as of", "right now"}

recentYears ==
    {"2020", "2021", "2022", "2023", "2024", "2025", "2026", "2027", "2028", "2029",
     "2030"}

questionStarters ==
    {"what", "who", "when", "where", "which", "how", "why", "can you tell me",
     "tell me about", "do you know"}

namedEntities ==
    {"google", "apple", "microsoft", "amazon", "meta", "facebook", "tesla",
     "spacex", "openai", "anthropic", "nvidia", "intel", "amd", "samsung",
     "elon musk", "bill gates", "jeff bezos", "mark zuckerberg", "satya nadella",
     "sam altman", "sundar pichai", "tim cook",
     "chatgpt", "gemini", "claude", "iphone", "android", "windows", "mac",
     "bitcoin", "ethereum", "stock", "cryptocurrency",
     "election", "olympics", "world cup", "summit", "conference", "launch"}

realTimeIndicators ==
    {"price", "cost", "worth", "value", "stock price", "market",
     "weather", "temperature", "forecast",
     "score", "result", "winner", "champion",
     "status", "availability", "open", "closed",
     "trending", "popular", "viral", "top"}

comparativeWords ==
    {"best", "worst", "top", "fastest", "slowest", "biggest", "smallest", "most",
     "least", "better", "worse"}

comparativeScopes == {"in", "of", "for", "at"}

statsPhrases ==
    {"how many", "how much", "number of", "percentage", "statistics", "data", "count"}

locationPrepositions == {"in", "at", "near", "around"}

locationNames ==
    {"new york", "london", "tokyo", "paris", "beijing", "india", "usa", "china",
     "europe", "asia"}

noSearchKeywords ==
    {"explain", "how does", "how do", "why does", "why do",
     "write", "create", "generate", "make me", "help me",
     "poem", "story", "essay", "code", "script", "function",
     "translate", "summarize", "rewrite", "paraphrase",
     "joke", "riddle", "fun fact", "imagine", "pretend"}

eventPattern(s) ==
    \/ includes(s, "what happened")
    \/ includes(s, "what's happening")
    \/ testDotStar(s, "did", "happen")
    \/ testDotStar(s, "has", "happened")
    \/ testDotStar(s, "will", "happen")

\* lines 365-437 without the normalisation of line 365
FeaturesOfRawQuery(query) ==
    LET hasTime == \E k \in timeKeywords : includes(query, k)
    IN  [ words             |-> splitLength(query),
          hasTimeIndicator  |-> hasTime,
          hasRecentYear     |-> testWordBounded(query, recentYears),
          isQuestion        |-> \E k \in questionStarters : startsWith(query, k),
          hasNamedEntity    |-> \E k \in namedEntities : includes(query, k),
          needsRealTimeData |-> \E k \in realTimeIndicators : includes(query, k),
          hasComparative    |-> testGap(query, comparativeWords, comparativeScopes),
          isEventQuery      |-> eventPattern(query),
          needsStats        |-> \E k \in statsPhrases : includes(query, k),
          hasLocation       |-> testGap(query, locationPrepositions, locationNames),
          isCreativeRequest |-> (\E k \in noSearchKeywords : includes(query, k))
                                /\ ~hasTime,
          isCommand         |-> startsWith(query, "/") ]

\* the flags computed in lines 365-437, from the query as submitted
Features(query) ==
    LET lowerQuery == trim(toLowerCase(query))
        hasTime == \E k \in timeKeywords : includes(lowerQuery, k)
    IN  [ words             |-> splitLength(lowerQuery),
          hasTimeIndicator  |-> hasTime,
          hasRecentYear     |-> testWordBounded(lowerQuery, recentYears),
          isQuestion        |-> \E k \in questionStarters : startsWith(lowerQuery, k),
          hasNamedEntity    |-> \E k \in namedEntities : includes(lowerQuery, k),
          needsRealTimeData |-> \E k \in realTimeIndicators : includes(lowerQuery, k),
          hasComparative    |-> testGap(lowerQuery, comparativeWords, comparativeScopes),
          isEventQuery      |-> eventPattern(lowerQuery),
          needsStats        |-> \E k \in statsPhrases : includes(lowerQuery, k),
          hasLocation       |-> testGap(lowerQuery, locationPrepositions, locationNames),
          isCreativeRequest |-> (\E k \in noSearchKeywords : includes(lowerQuery, k))
                                /\ ~hasTime,
          isCommand         |-> startsWith(lowerQuery, "/") ]

TimeWeight == 40
YearWeight == 30
RealTimeWeight == 35
EventWeight == 35
EntityWeight == 25
ComparativeWeight == 20
StatsWeight == 20
LocationWeight == 15
LongQuestionWeight == 10
CreativePenalty == 50
CommandPenalty == 100
ShortPenalty == 20
SearchThreshold == 30
LongQuestionWords == 4
ShortWords == 3

Add(cond, w) == IF cond THEN w ELSE 0

\* lines 440-455 without the command penalty of line 454
SearchScoreNoCommandPenalty(f) ==
      Add(f.hasTimeIndicator, TimeWeight)
    + Add(f.hasRecentYear, YearWeight)
    + Add(f.needsRealTimeData, RealTimeWeight)
    + Add(f.isEventQuery, EventWeight)
    + Add(f.hasNamedEntity /\ f.isQuestion, EntityWeight)
    + Add(f.hasComparative, ComparativeWeight)
    + Add(f.needsStats, StatsWeight)
    + Add(f.hasLocation /\ f.isQuestion, LocationWeight)
    + Add(f.isQuestion /\ f.words > LongQuestionWords, LongQuestionWeight)
    - Add(f.isCreativeRequest, CreativePenalty)
    - Add(f.words < ShortWords, ShortPenalty)

\* lines 440-455
SearchScore(f) ==
      Add(f.hasTimeIndicator, TimeWeight)
    + Add(f.hasRecentYear, YearWeight)
    + Add(f.needsRealTimeData, RealTimeWeight)
    + Add(f.isEventQuery, EventWeight)
    + Add(f.hasNamedEntity /\ f.isQuestion, EntityWeight)
    + Add(f.hasComparative, ComparativeWeight)
    + Add(f.needsStats, StatsWeight)
    + Add(f.hasLocation /\ f.isQuestion, LocationWeight)
    + Add(f.isQuestion /\ f.words > LongQuestionWords, LongQuestionWeight)
    - Add(f.isCreativeRequest, CreativePenalty)
    - Add(f.isCommand, CommandPenalty)
    - Add(f.words < ShortWords, ShortPenalty)

\* lines 458-461 with the threshold excluded
ScoreLineStrictThreshold(query) ==
    LET searchScore == SearchScore(Features(query))
    IN  [query |-> query, score |-> searchScore, search |-> searchScore > SearchThreshold]

\* the line written to the console (line 461); its last field is the value returned
ScoreLine(query) ==
    LET searchScore == SearchScore(Features(query))
    IN  [query |-> query, score |-> searchScore, search |-> searchScore >= SearchThreshold]

shouldPerformWebSearch(query) == ScoreLine(query).search

-----------------------------------------------------------------------------
(* Values *)

\* a search result, or null (present = FALSE); url = "" stands for undefined
NullResult == [present |-> FALSE, snippet |-> "", url |-> ""]
Result(snippet, url) == [present |-> TRUE, snippet |-> snippet, url |-> url]

\* a promise of a lookup, as Promise.allSettled reports it
NotStarted == [status |-> "none", value |-> NullResult]
Pending == [status |-> "pending", value |-> NullResult]
Fulfilled(v) == [status |-> "fulfilled", value |-> v]
Rejected == [status |-> "rejected", value |-> NullResult]

\* the text handed to callApi: the raw query, or the enrichment prompt of
\* lines 502-514 around a query and a search context
RawPrompt(query) == [kind |-> "raw", query |-> query, context |-> <<>>]
EnrichedPrompt(query, context) == [kind |-> "enriched", query |-> query, context |-> context]

\* the body posted by callApi: finalPrompt, as its parts
NoRequest ==
    [isImage |-> FALSE, system |-> FALSE, previous |-> <<>>,
     user |-> [kind |-> "none", query |-> "", context |-> <<>>]]

\* one entry of a turn's trace
Ev(e, text) == [ev |-> e, text |-> text, req |-> NoRequest]
CallEv(req) == [ev |-> "call", text |-> IF req.isImage THEN "image" ELSE "chat", req |-> req]

SorryMessage == "Sorry, something went wrong. Please try again."
SearchErrorMessage == "Web search encountered an error. Answering from knowledge base..."
ApiErrorMessage == "Error from API."
ImageErrorMessage == "Failed to generate image."
GeneratedImage == "[Generated Image]"

-----------------------------------------------------------------------------
(* The program state as one record, so that the handlers compose *)

Cur ==
    [chatInput |-> chatInput, isGenerating |-> isGenerating,
     conversationHistory |-> conversationHistory, currentChatId |-> currentChatId,
     allChats |-> allChats, localStorage |-> localStorage,
     typingIndicator |-> typingIndicator, sendButton |-> sendButton,
     consoleLog |-> consoleLog, pc |-> pc,
     wikiResult |-> wikiResult, ddgResult |-> ddgResult, apiCalls |-> apiCalls,
     turnCount |-> turnCount, turns |-> turns, clock |-> clock]

Become(m) ==
    /\ chatInput' = m.chatInput
    /\ isGenerating' = m.isGenerating
    /\ conversationHistory' = m.conversationHistory
    /\ currentChatId' = m.currentChatId
    /\ allChats' = m.allChats
    /\ localStorage' = m.localStorage
    /\ typingIndicator' = m.typingIndicator
    /\ sendButton' = m.sendButton
    /\ consoleLog' = m.consoleLog
    /\ pc' = m.pc
    /\ wikiResult' = m.wikiResult
    /\ ddgResult' = m.ddgResult
    /\ apiCalls' = m.apiCalls
    /\ turnCount' = m.turnCount
    /\ turns' = m.turns
    /\ clock' = m.clock

Log(m, t, e) ==
    IF t \in DOMAIN m.turns THEN [m EXCEPT !.turns[t].events = Append(@, e)] ELSE m

-----------------------------------------------------------------------------
(* Display *)

\* t is the turn on whose behalf the element is shown; rendering a stored
\* conversation (loadChat) is on behalf of none
displayMessage(m, t, text, isUser) ==
    Log(m, t, Ev(IF isUser THEN "show_user" ELSE "show", text))

displayImage(m, t, url) == Log(m, t, Ev("image", url))

displaySearchResults(m, t, query) == Log(m, t, Ev("card", query))

updateStatus(m, text, hide) ==
    IF hide
    THEN [m EXCEPT !.typingIndicator.hidden = TRUE, !.sendButton.disabled = FALSE]
    ELSE [m EXCEPT !.typingIndicator = [hidden |-> FALSE, text |-> "Aero is " \o text],
                   !.sendButton.disabled = TRUE]

-----------------------------------------------------------------------------
(* Conversation store *)

TitleLength == 40

\* JSON.stringify(allChats): the sessions in key order, which is the order in
\* which they were created
RECURSIVE stringifyFrom(_, _)
stringifyFrom(chats, ids) ==
    IF ids = {} THEN <<>>
    ELSE LET id == CHOOSE i \in ids : \A j \in ids : i <= j
         IN  <<chats[id]>> \o stringifyFrom(chats, ids \ {id})

stringify(chats) == stringifyFrom(chats, DOMAIN chats)

\* JSON.parse of such a blob
parse(blob) ==
    [id \in {blob[i].id : i \in 1..Len(blob)} |->
        blob[CHOOSE i \in 1..Len(blob) : blob[i].id = id]]

NoStorage == [present |-> FALSE, valid |-> FALSE, blob |-> <<>>]

saveAllChats(m) ==
    [m EXCEPT !.localStorage = [present |-> TRUE, valid |-> TRUE,
                                blob |-> stringify(m.allChats)]]

TitleOf(content) ==
    substringTo(content, TitleLength) \o (IF Len(content) > TitleLength THEN "..." ELSE "")

\* lines 83-99 without the saveAllChats of line 96
saveCurrentChatUnsaved(m) ==
    IF m.currentChatId # 0 /\ m.currentChatId \in DOMAIN m.allChats
    THEN [m EXCEPT !.allChats[m.currentChatId].messages = m.conversationHistory]
    ELSE m

saveCurrentChat(m) ==
    IF m.currentChatId # 0 /\ m.currentChatId \in DOMAIN m.allChats
    THEN LET id == m.currentChatId
             h == m.conversationHistory
             users == {i \in 1..Len(h) : h[i].role = "user"}
             m1 == [m EXCEPT !.allChats[id].messages = h]
             m2 == IF m1.allChats[id].title = "New chat" /\ Len(h) > 0 /\ users # {}
                   THEN [m1 EXCEPT !.allChats[id].title =
                            TitleOf(h[CHOOSE i \in users : \A j \in users : i <= j].content)]
                   ELSE m1
         IN  saveAllChats(m2)
    ELSE m

addToHistory(m, role, content) ==
    saveCurrentChat([m EXCEPT !.conversationHistory =
                                 Append(@, [role |-> role, content |-> content])])

RECURSIVE createNewChat(_)
RECURSIVE loadChat(_, _)

createNewChat(m) ==
    LET chatId == m.clock + 1
        newChat == [id |-> chatId, title |-> "New chat", date |-> m.clock + 1,
                    messages |-> <<>>]
        chats == [id \in DOMAIN m.allChats \cup {chatId} |->
                     IF id = chatId THEN newChat ELSE m.allChats[id]]
    IN  loadChat(saveAllChats([m EXCEPT !.allChats = chats, !.clock = chatId]), chatId)

loadChat(m, chatId) ==
    LET m1 == [m EXCEPT !.currentChatId = chatId]
    IN  IF chatId \notin DOMAIN m1.allChats
        THEN createNewChat(m1)
        ELSE [m1 EXCEPT !.conversationHistory = m1.allChats[chatId].messages]

\* the session with the latest date; of equal dates the sort keeps the first key
mostRecent(chats) ==
    CHOOSE a \in DOMAIN chats :
        \A b \in DOMAIN chats :
            chats[b].date < chats[a].date \/ (chats[b].date = chats[a].date /\ a <= b)

loadAllChats(m) ==
    IF m.localStorage.present
    THEN IF m.localStorage.valid
         THEN LET m1 == [m EXCEPT !.allChats = parse(m.localStorage.blob)]
              IN  IF DOMAIN m1.allChats # {}
                  THEN loadChat(m1, mostRecent(m1.allChats))
                  ELSE createNewChat(m1)
         ELSE createNewChat(m)
    ELSE createNewChat(m)

\* lines 129-140 without the createNewChat of line 136
deleteChatKeepsCurrent(m, chatId) ==
    saveAllChats([m EXCEPT !.allChats =
                     [id \in DOMAIN m.allChats \ {chatId} |-> m.allChats[id]]])

deleteChat(m, chatId) ==
    LET m1 == saveAllChats([m EXCEPT !.allChats =
                               [id \in DOMAIN m.allChats \ {chatId} |-> m.allChats[id]]])
    IN  IF chatId = m1.currentChatId THEN createNewChat(m1) ELSE m1

-----------------------------------------------------------------------------
(* callApi *)

ContextWindow == 10

\* line 826-830 without the slice(-10)
contextLinesWholeHistory(h) ==
    [i \in 1..Len(h) |->
        [label |-> IF h[i].role = "user" THEN "User" ELSE "Aero", content |-> h[i].content]]

\* conversationHistory.slice(-10).map(...): the lines of the conversation context
contextLines(h) ==
    LET from == IF Len(h) > ContextWindow THEN Len(h) - ContextWindow + 1 ELSE 1
    IN  [i \in 1..(Len(h) - from + 1) |->
            [label |-> IF h[from + i - 1].role = "user" THEN "User" ELSE "Aero",
             content |-> h[from + i - 1].content]]

\* lines 823-871 without the test of isImage at line 825
finalPromptAlwaysChat(h, prompt, isImage) ==
    [isImage |-> isImage, system |-> TRUE, previous |-> contextLines(h), user |-> prompt]

\* finalPrompt of lines 823-871
finalPrompt(h, prompt, isImage) ==
    IF isImage
    THEN [isImage |-> TRUE, system |-> FALSE, previous |-> <<>>, user |-> prompt]
    ELSE [isImage |-> FALSE, system |-> TRUE, previous |-> contextLines(h), user |-> prompt]

\* callApi up to its first await: the request is on its way; owner is the
\* function that awaits it for turn t
callApi(m, t, owner, prompt, isImage) ==
    LET req == finalPrompt(m.conversationHistory, prompt, isImage)
    IN  Log([m EXCEPT !.apiCalls = @ \cup {[turn |-> t, owner |-> owner, req |-> req]}],
            t, CallEv(req))

\* What the network can answer.  net: the fetch or response.json() rejects, or
\* a body arrives; isObject = FALSE is a body that is JSON null.
ApiAnswer(net, isObject, status, hasText, text, imageUrl) ==
    [net |-> net, isObject |-> isObject, status |-> status, hasText |-> hasText,
     text |-> text, imageUrl |-> imageUrl]

ChatAnswers ==
    { ApiAnswer("fetch_rejects", FALSE, "", FALSE, "", ""),
      ApiAnswer("json_rejects", FALSE, "", FALSE, "", ""),
      ApiAnswer("ok", FALSE, "", FALSE, "", ""),
      ApiAnswer("ok", TRUE, "success", TRUE, "Bitcoin trades near 60000 USD.", ""),
      ApiAnswer("ok", TRUE, "success", TRUE, "/image a cat on the moon", ""),
      ApiAnswer("ok", TRUE, "success", FALSE, "", ""),
      ApiAnswer("ok", TRUE, "error", FALSE, "", "") }

ImageAnswers ==
    { ApiAnswer("fetch_rejects", FALSE, "", FALSE, "", ""),
      ApiAnswer("ok", FALSE, "", FALSE, "", ""),
      ApiAnswer("ok", TRUE, "success", FALSE, "", "https://img.example/cat.png"),
      ApiAnswer("ok", TRUE, "success", FALSE, "", ""),
      ApiAnswer("ok", TRUE, "error", FALSE, "", "") }

AnswersTo(call) == IF call.req.isImage THEN ImageAnswers ELSE ChatAnswers

\* how an answer is entered in the turn's trace
AnswerClass(a, isImage) ==
    IF a.net # "ok" THEN "rejected"
    ELSE IF ~a.isObject THEN "null_body"
    ELSE IF a.status # "success" THEN "not_success"
    ELSE IF isImage THEN (IF a.imageUrl = "" THEN "success_without_image" ELSE "success")
    ELSE IF a.hasText THEN "success" ELSE "success_without_text"

-----------------------------------------------------------------------------
(* handleResponse *)

\* an error thrown inside the async handleResponse rejects the promise it
\* returned; no caller awaits that promise
unhandledRejection(m, t) == Log(m, t, Ev("unhandled", "handleResponse"))

\* lines 789-814 without the test of data.status
handleResponseIgnoresStatus(m, t, data, isImageGen) ==
    IF ~data.isObject THEN unhandledRejection(m, t)
    ELSE IF isImageGen
    THEN addToHistory(displayImage(m, t, data.imageUrl), "assistant", GeneratedImage)
    ELSE IF ~data.hasText THEN unhandledRejection(m, t)
    ELSE IF startsWith(toLowerCase(trim(data.text)), "/image")
    THEN callApi(updateStatus(m, "Generating image...", FALSE), t, "handleResponse",
                 RawPrompt(trim(substringFrom(data.text, 6))), TRUE)
    ELSE addToHistory(displayMessage(m, t, data.text, FALSE), "assistant", data.text)

\* lines 789-814 up to the await of line 799
handleResponse(m, t, data, isImageGen) ==
    IF ~data.isObject THEN unhandledRejection(m, t)
    ELSE IF data.status = "success"
    THEN IF isImageGen
         THEN addToHistory(displayImage(m, t, data.imageUrl), "assistant", GeneratedImage)
         ELSE IF ~data.hasText THEN unhandledRejection(m, t)
         ELSE IF startsWith(toLowerCase(trim(data.text)), "/image")
         THEN callApi(updateStatus(m, "Generating image...", FALSE), t, "handleResponse",
                      RawPrompt(trim(substringFrom(data.text, 6))), TRUE)
         ELSE addToHistory(displayMessage(m, t, data.text, FALSE), "assistant", data.text)
    ELSE displayMessage(m, t, ApiErrorMessage, FALSE)

\* lines 799-805: handleResponse resumes with the answer of the image call
handleResponseResume(m, t, a) ==
    IF a.net # "ok" \/ ~a.isObject THEN unhandledRejection(m, t)
    ELSE IF a.status = "success"
    THEN addToHistory(displayImage(m, t, a.imageUrl), "assistant", GeneratedImage)
    ELSE displayMessage(m, t, ImageErrorMessage, FALSE)

-----------------------------------------------------------------------------
(* Search aggregator *)

SnippetLength == 300

\* snippet.replace(/<[^>]*>/g, '')
RECURSIVE stripTags(_)
stripTags(s) ==
    LET opens == {i \in 1..Len(s) : Char(s, i) = "<"
                                    /\ \E j \in (i + 1)..Len(s) : Char(s, j) = ">"}
    IN  IF opens = {} THEN s
        ELSE LET i == CHOOSE x \in opens : \A y \in opens : x <= y
                 closes == {j \in (i + 1)..Len(s) : Char(s, j) = ">"}
                 j == CHOOSE x \in closes : \A y \in closes : x <= y
             IN  SubSeq(s, 1, i - 1) \o stripTags(SubSeq(s, j + 1, Len(s)))

\* encodeURIComponent on the characters that occur in the titles of the model
EncodeChar(c) ==
    IF c = " " THEN "%20"
    ELSE IF c = "/" THEN "%2F"
    ELSE IF c = "?" THEN "%3F"
    ELSE IF c = "&" THEN "%26"
    ELSE c

RECURSIVE encodeURIComponent(_)
encodeURIComponent(s) ==
    IF s = "" THEN "" ELSE EncodeChar(Char(s, 1)) \o encodeURIComponent(SubSeq(s, 2, Len(s)))

WikiAnswer(net, hasQuery, search) == [net |-> net, hasQuery |-> hasQuery, search |-> search]

WikiAnswers ==
    { WikiAnswer("fetch_rejects", FALSE, <<>>),
      WikiAnswer("json_rejects", FALSE, <<>>),
      WikiAnswer("ok", FALSE, <<>>),
      WikiAnswer("ok", TRUE, <<>>),
      WikiAnswer("ok", TRUE,
                 << [title |-> "Bitcoin price",
                     snippet |-> "<span class=\"searchmatch\">Bitcoin</span> is a currency"],
                    [title |-> "Blockchain", snippet |-> "A distributed ledger"] >>) }

\* lines 529-547 with every failure thrown past the function instead of caught
searchWikipediaUncaught(a) ==
    IF a.net # "ok" \/ ~a.hasQuery THEN Rejected
    ELSE IF Len(a.search) > 0
    THEN Fulfilled(Result(substringTo(stripTags(a.search[1].snippet), SnippetLength) \o "...",
                          "https://en.wikipedia.org/wiki/"
                              \o encodeURIComponent(a.search[1].title)))
    ELSE Fulfilled(NullResult)

\* lines 529-547: the promise searchWikipedia returns, once the network answered
searchWikipedia(a) ==
    IF a.net # "ok" THEN Fulfilled(NullResult)
    ELSE IF ~a.hasQuery THEN Fulfilled(NullResult)
    ELSE IF Len(a.search) > 0
    THEN Fulfilled(Result(substringTo(stripTags(a.search[1].snippet), SnippetLength) \o "...",
                          "https://en.wikipedia.org/wiki/"
                              \o encodeURIComponent(a.search[1].title)))
    ELSE Fulfilled(NullResult)

\* "" stands for a field that is missing or empty
DdgAnswer(net, isObject, abstractText, abstractURL, relatedTopics) ==
    [net |-> net, isObject |-> isObject, AbstractText |-> abstractText,
     AbstractURL |-> abstractURL, RelatedTopics |-> relatedTopics]

DdgAnswers ==
    { DdgAnswer("fetch_rejects", FALSE, "", "", <<>>),
      DdgAnswer("json_rejects", FALSE, "", "", <<>>),
      DdgAnswer("ok", FALSE, "", "", <<>>),
      DdgAnswer("ok", TRUE, "", "", <<>>),
      DdgAnswer("ok", TRUE, "Bitcoin is a decentralized digital currency",
                "https://duckduckgo.com/Bitcoin", <<>>),
      DdgAnswer("ok", TRUE, "Bitcoin is a decentralized digital currency", "", <<>>),
      DdgAnswer("ok", TRUE, "", "",
                << [Text |-> "Bitcoin Cash", FirstURL |-> "https://duckduckgo.com/Bitcoin_Cash"] >>),
      DdgAnswer("ok", TRUE, "", "", << [Text |-> "", FirstURL |-> ""] >>) }

\* lines 549-574
searchDuckDuckGo(a) ==
    IF a.net # "ok" THEN Fulfilled(NullResult)
    ELSE IF ~a.isObject THEN Fulfilled(NullResult)
    ELSE IF a.AbstractText # ""
    THEN Fulfilled(Result(substringTo(a.AbstractText, SnippetLength) \o "...", a.AbstractURL))
    ELSE IF Len(a.RelatedTopics) > 0 /\ a.RelatedTopics[1].Text # ""
    THEN Fulfilled(Result(substringTo(a.RelatedTopics[1].Text, SnippetLength) \o "...",
                          a.RelatedTopics[1].FirstURL))
    ELSE Fulfilled(NullResult)

IsSettled(p) == p.status \in {"fulfilled", "rejected"}

\* Promise.race in the place of Promise.allSettled
anySettled(w, d) == IsSettled(w) \/ IsSettled(d)

\* Promise.allSettled of line 471
allSettled(w, d) == IsSettled(w) /\ IsSettled(d)

Block(label, snippet) == [label |-> label, snippet |-> snippet]

\* lines 476-489 with the citation of the second source pushed unconditionally
buildContextAlwaysCites(w, d) ==
    LET wiki == w.status = "fulfilled" /\ w.value.present
        ddg == d.status = "fulfilled" /\ d.value.present
    IN  [context |-> (IF wiki THEN <<Block("From Wikipedia", w.value.snippet)>> ELSE <<>>)
                     \o (IF ddg THEN <<Block("From DuckDuckGo", d.value.snippet)>> ELSE <<>>),
         sources |-> (IF wiki THEN <<"[Wikipedia](" \o w.value.url \o ")">> ELSE <<>>)
                     \o (IF ddg THEN <<"[Source](" \o d.value.url \o ")">> ELSE <<>>)]

\* lines 476-489: searchContext as its blocks (no block: the empty string), and sources
buildContext(w, d) ==
    LET wiki == w.status = "fulfilled" /\ w.value.present
        ddg == d.status = "fulfilled" /\ d.value.present
    IN  [context |-> (IF wiki THEN <<Block("From Wikipedia", w.value.snippet)>> ELSE <<>>)
                     \o (IF ddg THEN <<Block("From DuckDuckGo", d.value.snippet)>> ELSE <<>>),
         sources |-> (IF wiki THEN <<"[Wikipedia](" \o w.value.url \o ")">> ELSE <<>>)
                     \o (IF ddg /\ d.value.url # ""
                         THEN <<"[Source](" \o d.value.url \o ")">> ELSE <<>>)]

\* lines 467-474: both lookups are called, then performWebSearch awaits
performWebSearch(m, t) ==
    Log([updateStatus(m, "Searching the web...", FALSE)
            EXCEPT !.wikiResult = Pending, !.ddgResult = Pending, !.pc = "allSettled"],
        t, Ev("lookups", ""))

\* lines 476-516: performWebSearch resumes from the await of line 471
performWebSearchResume(m, t) ==
    LET query == m.turns[t].message
        built == buildContext(m.wikiResult, m.ddgResult)
        m1 == [m EXCEPT !.turns[t].searchContext = built.context,
                        !.turns[t].sources = built.sources,
                        !.turns[t].joined = <<m.wikiResult, m.ddgResult>>]
        m2 == IF built.context # <<>> THEN displaySearchResults(m1, t, query) ELSE m1
        m3 == updateStatus(m2, "Analyzing information...", FALSE)
    IN  [callApi(m3, t, "handleChatSubmit", EnrichedPrompt(query, built.context), FALSE)
            EXCEPT !.pc = "enriched"]

\* a lookup settles; the await of line 471 ends with the last of them
lookupSettled(m) ==
    IF m.pc = "allSettled" /\ allSettled(m.wikiResult, m.ddgResult)
    THEN performWebSearchResume(m, m.turnCount)
    ELSE m

-----------------------------------------------------------------------------
(* handleChatSubmit *)

\* The trace of a turn: the message and the chat it was submitted in, what was
\* called, answered and shown on its behalf, and the locals of performWebSearch
\* at line 476.  A trace is kept while its turn can still act: it is dropped
\* when a later submit is taken up after the turn's last call has settled.
NewTurn(message, chatId) ==
    [message |-> message, chat |-> chatId, events |-> <<>>,
     searchContext |-> <<>>, sources |-> <<>>, joined |-> <<>>]

Acting(m) == {call.turn : call \in m.apiCalls}

beginTurn(m, message) ==
    LET t == m.turnCount + 1
    IN  [m EXCEPT !.turnCount = t,
                  !.turns = [u \in (DOMAIN m.turns \cap Acting(m)) \cup {t} |->
                                IF u = t THEN NewTurn(message, m.currentChatId)
                                ELSE m.turns[u]]]

\* line 328 without the in-flight guard
acceptsWhileGenerating(m, message) == message # ""

\* line 328: the submit is taken up
accepts(m, message) == message # "" /\ ~m.isGenerating

isImageGen(message) == startsWith(toLowerCase(message), "/image")

\* which branch of lines 342-353 a message takes
Path(message) ==
    IF ~isImageGen(message) /\ shouldPerformWebSearch(message) THEN "search"
    ELSE IF isImageGen(message) THEN "image"
    ELSE "chat"

\* lines 357-360 that only hide the indicator
finallyKeepsGuard(m, t) ==
    Log(updateStatus([m EXCEPT !.pc = "idle", !.wikiResult = NotStarted,
                               !.ddgResult = NotStarted], "", TRUE),
        t, Ev("finally", ""))

\* lines 357-360; the activation ends and its locals with it
finally(m, t) ==
    Log(updateStatus([m EXCEPT !.isGenerating = FALSE, !.pc = "idle",
                               !.wikiResult = NotStarted, !.ddgResult = NotStarted],
                     "", TRUE),
        t, Ev("finally", ""))

\* lines 354-360
catchAndFinally(m, t) ==
    finally(displayMessage(Log(m, t, Ev("caught", "handleChatSubmit")),
                           t, SorryMessage, FALSE), t)

\* lines 519-523: the catch of performWebSearch, up to the await of line 522
searchCatch(m, t) ==
    LET m1 == displayMessage(Log(m, t, Ev("caught", "performWebSearch")),
                             t, SearchErrorMessage, FALSE)
    IN  [callApi(m1, t, "handleChatSubmit", RawPrompt(m.turns[t].message), FALSE)
            EXCEPT !.pc = "fallback"]

\* the call of line 522 is made again when it fails
fallbackRetried(m, t) == searchCatch(m, t)

\* the call of line 522 fails: nothing in performWebSearch catches it, so it
\* reaches the catch of handleChatSubmit
fallbackRejected(m, t) == catchAndFinally(m, t)

\* lines 325-353 for a submit that is taken up, to the first await
handleChatSubmit(m, message) ==
    LET t == m.turnCount + 1
        m0 == beginTurn(m, message)
        m1 == addToHistory(displayMessage(m0, t, message, TRUE), "user", message)
        m2 == [m1 EXCEPT !.chatInput = "", !.isGenerating = TRUE]
        scored == [m2 EXCEPT !.consoleLog = <<ScoreLine(message)>>]
    IN  IF ~isImageGen(message) /\ shouldPerformWebSearch(message)
        THEN performWebSearch(scored, t)
        ELSE IF isImageGen(message)
        THEN [callApi(updateStatus(m2, "Generating image...", FALSE), t, "handleChatSubmit",
                      RawPrompt(trim(substringFrom(message, 6))), TRUE)
                 EXCEPT !.pc = "image"]
        ELSE [callApi(updateStatus(scored, "Thinking...", FALSE), t, "handleChatSubmit",
                      RawPrompt(message), FALSE)
                 EXCEPT !.pc = "chat"]

\* handleChatSubmit (through performWebSearch on the search path) resumes
\* with the answer to the call it awaits
handleChatSubmitResume(m, call, a) ==
    LET t == call.turn
        m0 == Log([m EXCEPT !.apiCalls = @ \ {call}], t,
                  Ev("response", AnswerClass(a, call.req.isImage)))
    IN  IF a.net # "ok"
        THEN IF m.pc = "enriched" THEN searchCatch(m0, t)
             ELSE IF m.pc = "fallback" THEN fallbackRejected(m0, t)
             ELSE catchAndFinally(m0, t)
        ELSE finally(handleResponse(m0, t, a, m.pc = "image"), t)

\* the detached handleResponse resumes with the answer to its image call
followUpResume(m, call, a) ==
    LET t == call.turn
        m0 == Log([m EXCEPT !.apiCalls = @ \ {call}], t,
                  Ev("response", AnswerClass(a, TRUE)))
    IN  handleResponseResume(m0, t, a)

-----------------------------------------------------------------------------
(* Initial state: DOMContentLoaded has run loadAllChats *)

InitialStorage ==
    { NoStorage,
      [present |-> TRUE, valid |-> FALSE, blob |-> <<>>] }

Boot(storage) ==
    [chatInput |-> "", isGenerating |-> FALSE, conversationHistory |-> <<>>,
     currentChatId |-> 0, allChats |-> <<>>, localStorage |-> storage,
     typingIndicator |-> [hidden |-> TRUE, text |-> ""],
     sendButton |-> [disabled |-> FALSE], consoleLog |-> <<>>,
     pc |-> "idle", wikiResult |-> NotStarted, ddgResult |-> NotStarted,
     apiCalls |-> {}, turnCount |-> 0, turns |-> <<>>, clock |-> Len(storage.blob)]

Is(m) ==
    /\ chatInput = m.chatInput
    /\ isGenerating = m.isGenerating
    /\ conversationHistory = m.conversationHistory
    /\ currentChatId = m.currentChatId
    /\ allChats = m.allChats
    /\ localStorage = m.localStorage
    /\ typingIndicator = m.typingIndicator
    /\ sendButton = m.sendButton
    /\ consoleLog = m.consoleLog
    /\ pc = m.pc
    /\ wikiResult = m.wikiResult
    /\ ddgResult = m.ddgResult
    /\ apiCalls = m.apiCalls
    /\ turnCount = m.turnCount
    /\ turns = m.turns
    /\ clock = m.clock

Init == \E storage \in InitialStorage : Is(loadAllChats(Boot(storage)))

-----------------------------------------------------------------------------
(* Actions *)

\* a message for each branch of lines 342-353, an image command that the
\* scorer would send to the search path, and an input of blanks
Messages ==
    {"What is the price of Bitcoin today?", "/image a cat", "Explain quantum computing",
     "/image did it happen today 2024 price"}

Inputs == Messages \cup {"  "}

\* a submit event with text in the input box, not taken up
SubmitRejected ==
    \E text \in Inputs :
        /\ ~accepts(Cur, trim(text))
        /\ Become([Cur EXCEPT !.chatInput = text])

\* Path, computed once for each input
PathOfInput == [text \in Inputs |-> Path(trim(text))]

SubmitSearch ==
    \E text \in Inputs :
        /\ turnCount < MaxTurns \/ isGenerating
        /\ accepts(Cur, trim(text))
        /\ PathOfInput[text] = "search"
        /\ Become(handleChatSubmit(Cur, trim(text)))

SubmitImage ==
    \E text \in Inputs :
        /\ turnCount < MaxTurns \/ isGenerating
        /\ accepts(Cur, trim(text))
        /\ PathOfInput[text] = "image"
        /\ Become(handleChatSubmit(Cur, trim(text)))

SubmitChat ==
    \E text \in Inputs :
        /\ turnCount < MaxTurns \/ isGenerating
        /\ accepts(Cur, trim(text))
        /\ PathOfInput[text] = "chat"
        /\ Become(handleChatSubmit(Cur, trim(text)))

WikipediaSettles ==
    \E a \in WikiAnswers :
        /\ wikiResult.status = "pending"
        /\ Become(lookupSettled([Cur EXCEPT !.wikiResult = searchWikipedia(a)]))

DuckDuckGoSettles ==
    \E a \in DdgAnswers :
        /\ ddgResult.status = "pending"
        /\ Become(lookupSettled([Cur EXCEPT !.ddgResult = searchDuckDuckGo(a)]))

ApiCallSettles ==
    \E call \in apiCalls : \E a \in AnswersTo(call) :
        /\ call.owner = "handleChatSubmit"
        /\ Become(handleChatSubmitResume(Cur, call, a))

FollowUpSettles ==
    \E call \in apiCalls : \E a \in AnswersTo(call) :
        /\ call.owner = "handleResponse"
        /\ Become(followUpResume(Cur, call, a))

NewChatClicked ==
    /\ clock < MaxChats
    /\ Become(createNewChat(Cur))

HistoryItemClicked ==
    \E chatId \in DOMAIN allChats :
        Become(loadChat(Cur, chatId))

DeleteClicked ==
    \E chatId \in DOMAIN allChats :
        /\ chatId = currentChatId => clock < MaxChats
        /\ Become(deleteChat(Cur, chatId))

\* loadChat is called with an id that allChats does not hold
MissingChatLoaded ==
    \E chatId \in (1..(MaxChats + 1)) \ DOMAIN allChats :
        /\ clock < MaxChats
        /\ Become(loadChat(Cur, chatId))

\* the chat turn alone: submits and the network
TurnNext ==
    \/ SubmitRejected
    \/ SubmitSearch
    \/ SubmitImage
    \/ SubmitChat
    \/ WikipediaSettles
    \/ DuckDuckGoSettles
    \/ ApiCallSettles
    \/ FollowUpSettles

Next ==
    \/ TurnNext
    \/ NewChatClicked
    \/ HistoryItemClicked
    \/ DeleteClicked
    \/ MissingChatLoaded

Spec == Init /\ [][Next]_vars

TurnSpec == Init /\ [][TurnNext]_vars

\* every outbound network call eventually settles
FairTurnSpec ==
    /\ TurnSpec
    /\ WF_vars(WikipediaSettles)
    /\ WF_vars(DuckDuckGoSettles)
    /\ WF_vars(ApiCallSettles)
    /\ WF_vars(FollowUpSettles)

-----------------------------------------------------------------------------
(* The conversation store alone: its callers append turns, the user manages
   chats, and the page is loaded again *)

Appended ==
    { [role |-> "user", content |-> "What is the difference between TCP and UDP sockets?"],
      [role |-> "assistant", content |-> "Bitcoin trades near 60000 USD."] }

TurnAppended ==
    \E turn \in Appended :
        /\ Len(conversationHistory) < MaxStored
        /\ Become(addToHistory(Cur, turn.role, turn.content))

\* the page is loaded again: the script's variables start afresh and
\* loadAllChats reads what localStorage holds
Reloaded ==
    /\ pc = "idle"
    /\ Become(loadAllChats([Boot(localStorage) EXCEPT !.clock = clock]))

StoreNext ==
    \/ TurnAppended
    \/ NewChatClicked
    \/ HistoryItemClicked
    \/ DeleteClicked
    \/ Reloaded

StoreSpec == Init /\ [][StoreNext]_vars

-----------------------------------------------------------------------------
(* A plain chat turn in a session that already holds turns: the page is
   loaded with one stored session of up to MaxHistory turns *)

StoredTurn(i) ==
    [role |-> IF i % 2 = 1 THEN "user" ELSE "assistant",
     content |-> (IF i % 2 = 1 THEN "question " ELSE "answer ") \o ToString(i)]

StoredSession(n) ==
    [id |-> 1, title |-> IF n = 0 THEN "New chat" ELSE TitleOf(StoredTurn(1).content),
     date |-> 1, messages |-> [i \in 1..n |-> StoredTurn(i)]]

PromptInit ==
    \E n \in 0..MaxHistory :
        Is(loadAllChats(Boot([present |-> TRUE, valid |-> TRUE,
                              blob |-> <<StoredSession(n)>>])))

PromptNext ==
    \/ SubmitChat
    \/ ApiCallSettles
    \/ FollowUpSettles

PromptSpec == PromptInit /\ [][PromptNext]_vars

-----------------------------------------------------------------------------
(* The scorer alone: a query is in the input box and is scored *)

Vocabulary ==
    << "what", "did it happen", "bitcoin", "today", "2024", "price", "best of",
       "percentage", "in london", "explain", "the cat" >>

Prefixes == {"", "/", "/image "}

RECURSIVE joinWords(_, _)
joinWords(picked, i) ==
    IF i > Len(Vocabulary) THEN ""
    ELSE IF i \in picked
    THEN LET rest == joinWords(picked, i + 1)
         IN  Vocabulary[i] \o (IF rest = "" THEN "" ELSE " " \o rest)
    ELSE joinWords(picked, i + 1)

\* a prefix, then at most MaxWords entries of the vocabulary in its order
ScoreInputs ==
    { prefix \o joinWords(picked, 1) :
        prefix \in Prefixes,
        picked \in {x \in SUBSET (1..Len(Vocabulary)) : Cardinality(x) <= MaxWords} }

ScoreInit ==
    \E query \in ScoreInputs :
        Is([loadAllChats(Boot(NoStorage)) EXCEPT !.chatInput = query])

EvaluateQuery ==
    /\ consoleLog = <<>>
    /\ Become([Cur EXCEPT !.consoleLog = <<ScoreLine(chatInput)>>])

UpperChar(c) ==
    IF InStr(c, LowerCase)
    THEN Char(UpperCase, CHOOSE i \in 1..Len(LowerCase) : Char(LowerCase, i) = c)
    ELSE c

RECURSIVE toUpperCase(_)
toUpperCase(s) ==
    IF s = "" THEN "" ELSE UpperChar(Char(s, 1)) \o toUpperCase(SubSeq(s, 2, Len(s)))

\* the same text typed again: as it was, in capitals, or with blanks around it
Retyped(query) == {query, toUpperCase(query), "  " \o query \o " "}

\* the text scored before is typed and scored once more
EvaluateAgain ==
    /\ Len(consoleLog) = 1
    /\ \E query \in Retyped(consoleLog[1].query) :
          Become([Cur EXCEPT !.chatInput = query,
                              !.consoleLog = Append(@, ScoreLine(query))])

ScoreNext == EvaluateQuery

ScoreSpec == ScoreInit /\ [][ScoreNext]_vars

\* The scorer called twice: a short text is scored, a chat may be opened, and
\* the text is typed and scored again
RetypeInputs ==
    { prefix \o joinWords(picked, 1) :
        prefix \in Prefixes,
        picked \in {x \in SUBSET (1..Len(Vocabulary)) : Cardinality(x) <= MaxRetypedWords} }

RetypeInit ==
    \E query \in RetypeInputs :
        Is([loadAllChats(Boot(NoStorage)) EXCEPT !.chatInput = query])

RetypeNext ==
    \/ EvaluateQuery
    \/ EvaluateAgain
    \/ NewChatClicked

RetypeSpec == RetypeInit /\ [][RetypeNext]_vars

-----------------------------------------------------------------------------
(* C1 *)

\* the features that add to the score of a query that is no question
PositiveFeatures(f) ==
    {k \in {"time", "year", "realtime", "event", "comparative", "stats"} :
        \/ k = "time" /\ f.hasTimeIndicator
        \/ k = "year" /\ f.hasRecentYear
        \/ k = "realtime" /\ f.needsRealTimeData
        \/ k = "event" /\ f.isEventQuery
        \/ k = "comparative" /\ f.hasComparative
        \/ k = "stats" /\ f.needsStats}

\* C1 as stated: a query whose normalized text starts with "/" is never
\* scored as needing a search, whatever else it matches.
C1_CommandNeverSearches ==
    \A i \in 1..Len(consoleLog) :
        Features(consoleLog[i].query).isCommand => ~consoleLog[i].search

\* C1 as amended: a query whose normalized text starts with "/" is scored as
\* not needing a search whenever it matches fewer than four of the time,
\* year, real-time, event, comparative and statistics features; no question
\* bonus ever applies to it.
C1_CommandSearchNeedsFourFeatures ==
    \A i \in 1..Len(consoleLog) :
        LET f == Features(consoleLog[i].query)
        IN  f.isCommand =>
              /\ ~f.isQuestion
              /\ Cardinality(PositiveFeatures(f)) < 4 => ~consoleLog[i].search

\* a command that matches three of the features has been scored
C1_Witness ==
    /\ consoleLog # <<>>
    /\ Features(consoleLog[1].query).isCommand
    /\ Cardinality(PositiveFeatures(Features(consoleLog[1].query))) = 3
    /\ ~consoleLog[1].search

-----------------------------------------------------------------------------
(* Reading a turn's trace *)

EventsOf(t) == turns[t].events

Positions(t) == 1..Len(EventsOf(t))

IsChatCall(e) == e.ev = "call" /\ ~e.req.isImage

IsShow(e, text) == e.ev = "show" /\ e.text = text

IsResponse(e, class) == e.ev = "response" /\ e.text = class

Joined(t) == turns[t].joined # <<>>

HasResult(p) == p.status = "fulfilled" /\ p.value.present

-----------------------------------------------------------------------------
(* C2 *)

\* C2 as stated: when neither lookup yields a result, the search context is
\* empty, the citation list is empty, and no enrichment prompt is sent with
\* the empty context: every call of the turn carries the raw query.
C2_EmptyContextFallsBackToRawQuery ==
    \A t \in DOMAIN turns :
        (Joined(t) /\ ~HasResult(turns[t].joined[1]) /\ ~HasResult(turns[t].joined[2]))
        => /\ turns[t].searchContext = <<>>
           /\ turns[t].sources = <<>>
           /\ \A i \in Positions(t) :
                 IsChatCall(EventsOf(t)[i]) =>
                    EventsOf(t)[i].req.user = RawPrompt(turns[t].message)

-----------------------------------------------------------------------------
(* C3 *)

SubmitEvent == SubmitRejected \/ SubmitSearch \/ SubmitImage \/ SubmitChat

\* C3: a submit while isGenerating holds changes nothing but the text left in
\* the input box (nothing is shown, appended, searched or called), and a turn
\* begins only in a submit step taken while isGenerating is false, so a
\* rejected submit is never run later.
C3_BusySubmitRejected ==
    [][ /\ (isGenerating /\ SubmitEvent) =>
              UNCHANGED <<isGenerating, conversationHistory, currentChatId, allChats,
                          localStorage, typingIndicator, sendButton, consoleLog, pc,
                          wikiResult, ddgResult, apiCalls, turnCount, turns, clock>>
        /\ (turnCount' # turnCount) => (~isGenerating /\ SubmitEvent /\ isGenerating')
      ]_vars

\* a turn is in flight and the text of a submit that was not taken up is
\* still in the input box
C3_Witness ==
    /\ isGenerating
    /\ pc # "idle"
    /\ chatInput \in Messages

-----------------------------------------------------------------------------
(* C4 *)

\* C4: whenever isGenerating holds, a state follows in which it is false, the
\* indicator is hidden and the send button is enabled, given that every
\* network call settles.
C4_GuardEventuallyCleared ==
    isGenerating ~> (~isGenerating /\ typingIndicator.hidden /\ ~sendButton.disabled)

\* a turn whose call failed has ended, and the guard is cleared
C4_Witness ==
    /\ ~isGenerating
    /\ typingIndicator.hidden
    /\ ~sendButton.disabled
    /\ \E t \in DOMAIN turns :
          /\ \E i \in Positions(t) : IsResponse(EventsOf(t)[i], "rejected")
          /\ \E i \in Positions(t) : EventsOf(t)[i].ev = "finally"

-----------------------------------------------------------------------------
(* C5 *)

\* C5: when performWebSearch waits, both lookups have been started; the
\* context is built, and the enrichment call made, only from two settled
\* lookups; and a lookup that settles while the other is pending leaves the
\* other pending.
C5_JoinBarrier ==
    [][ /\ (pc' = "allSettled") =>
              (wikiResult'.status # "none" /\ ddgResult'.status # "none")
        /\ \A t \in DOMAIN turns' :
              /\ (turns'[t].joined # <<>>) =>
                    (IsSettled(turns'[t].joined[1]) /\ IsSettled(turns'[t].joined[2]))
              /\ \A i \in 1..Len(turns'[t].events) :
                    turns'[t].events[i].req.user.kind = "enriched" =>
                       turns'[t].joined # <<>>
        /\ (wikiResult.status = "pending" /\ ddgResult.status = "pending") =>
              (wikiResult'.status = "pending" \/ ddgResult'.status = "pending")
        /\ (wikiResult.status = "pending" /\ IsSettled(ddgResult)) =>
              (ddgResult' = ddgResult \/ IsSettled(wikiResult'))
        /\ (ddgResult.status = "pending" /\ IsSettled(wikiResult)) =>
              (wikiResult' = wikiResult \/ IsSettled(ddgResult'))
      ]_vars

\* one lookup has ended without a result, the other is still running and
\* performWebSearch still waits
C5_Witness ==
    /\ pc = "allSettled"
    /\ ddgResult = Fulfilled(NullResult)
    /\ wikiResult.status = "pending"

-----------------------------------------------------------------------------
(* C6 *)

WikiFails(a) == a.net # "ok" \/ ~a.hasQuery \/ a.search = <<>>

DdgFails(a) ==
    \/ a.net # "ok"
    \/ ~a.isObject
    \/ (a.AbstractText = "" /\ (a.RelatedTopics = <<>> \/ a.RelatedTopics[1].Text = ""))

\* C6: no lookup ever ends rejected; a request that fails, a malformed
\* response and an empty result set each give null; and when exactly one
\* lookup gave a result, the context is that result's block and it is what
\* the enrichment call carries.
C6_LookupsFailClosed ==
    /\ wikiResult.status # "rejected"
    /\ ddgResult.status # "rejected"
    /\ (pc = "allSettled") =>
          /\ \A a \in WikiAnswers : WikiFails(a) => searchWikipedia(a) = Fulfilled(NullResult)
          /\ \A a \in DdgAnswers : DdgFails(a) => searchDuckDuckGo(a) = Fulfilled(NullResult)
    /\ \A t \in DOMAIN turns :
          Joined(t) =>
             LET w == turns[t].joined[1]
                 d == turns[t].joined[2]
                 only == IF HasResult(w)
                         THEN <<Block("From Wikipedia", w.value.snippet)>>
                         ELSE <<Block("From DuckDuckGo", d.value.snippet)>>
             IN  /\ w.status = "fulfilled"
                 /\ d.status = "fulfilled"
                 /\ (HasResult(w) # HasResult(d)) =>
                       /\ turns[t].searchContext = only
                       /\ \E i \in Positions(t) :
                             /\ IsChatCall(EventsOf(t)[i])
                             /\ EventsOf(t)[i].req.user =
                                   EnrichedPrompt(turns[t].message, only)

\* DuckDuckGo gave nothing, Wikipedia gave a result, and the enrichment call
\* has been made
C6_Witness ==
    \E t \in DOMAIN turns :
        /\ Joined(t)
        /\ HasResult(turns[t].joined[1])
        /\ ~HasResult(turns[t].joined[2])
        /\ \E i \in Positions(t) : EventsOf(t)[i].req.user.kind = "enriched"

-----------------------------------------------------------------------------
(* C7 *)

ExpectedBlocks(w, d) ==
    (IF HasResult(w) THEN <<Block("From Wikipedia", w.value.snippet)>> ELSE <<>>)
    \o (IF HasResult(d) THEN <<Block("From DuckDuckGo", d.value.snippet)>> ELSE <<>>)

\* C7 as stated: the blocks are those of the results that are present,
\* Wikipedia first, and there are as many citations as blocks.
C7_OneCitationPerBlock ==
    \A t \in DOMAIN turns :
        Joined(t) =>
           /\ turns[t].searchContext = ExpectedBlocks(turns[t].joined[1], turns[t].joined[2])
           /\ Len(turns[t].sources) = Len(turns[t].searchContext)

\* C7 as amended: the blocks are those of the results that are present,
\* Wikipedia first; a Wikipedia result contributes one citation, a DuckDuckGo
\* result contributes one citation when it carries a url and none otherwise,
\* in the same order; so there are never more citations than blocks.
C7_CitationPerResultWithUrl ==
    \A t \in DOMAIN turns :
        Joined(t) =>
           LET w == turns[t].joined[1]
               d == turns[t].joined[2]
           IN  /\ turns[t].searchContext = ExpectedBlocks(w, d)
               /\ turns[t].sources =
                     (IF HasResult(w) THEN <<"[Wikipedia](" \o w.value.url \o ")">> ELSE <<>>)
                     \o (IF HasResult(d) /\ d.value.url # ""
                         THEN <<"[Source](" \o d.value.url \o ")">> ELSE <<>>)
               /\ Len(turns[t].sources) <= Len(turns[t].searchContext)

\* both lookups gave a result and the DuckDuckGo result has no url
C7_Witness ==
    \E t \in DOMAIN turns :
        /\ Joined(t)
        /\ HasResult(turns[t].joined[1])
        /\ HasResult(turns[t].joined[2])
        /\ turns[t].joined[2].value.url = ""
        /\ Len(turns[t].searchContext) = 2

-----------------------------------------------------------------------------
(* C8 *)

ChatCalls(t) == {i \in Positions(t) : IsChatCall(EventsOf(t)[i])}

SearchCatches(t) ==
    {i \in Positions(t) : EventsOf(t)[i] = Ev("caught", "performWebSearch")}

\* C8: in one turn performWebSearch catches at most once; the catch follows
\* the failure of the enrichment call, tells the user and sends the same
\* query once as a raw prompt; the chat endpoint is called at most twice; and
\* when that second call fails the turn ends with the failure message and
\* nothing more.
C8_SingleFallback ==
    \A t \in DOMAIN turns :
        LET ev == EventsOf(t)
        IN  /\ Cardinality(SearchCatches(t)) <= 1
            /\ Cardinality(ChatCalls(t)) <= 2
            /\ \A i \in Positions(t) :
                  (IsResponse(ev[i], "rejected") /\ i > 1 /\ ev[i - 1].req.user.kind = "enriched")
                  => (i + 1 \in SearchCatches(t))
            /\ \A i \in SearchCatches(t) :
                  /\ Len(ev) >= i + 2
                  /\ IsShow(ev[i + 1], SearchErrorMessage)
                  /\ IsChatCall(ev[i + 2])
                  /\ ev[i + 2].req.user = RawPrompt(turns[t].message)
                  /\ \A j \in Positions(t) : (j > i + 2) => ev[j].ev # "call" \/ ev[j].req.isImage
                  /\ (Len(ev) >= i + 3 /\ IsResponse(ev[i + 3], "rejected")) =>
                        /\ Len(ev) = i + 6
                        /\ ev[i + 4] = Ev("caught", "handleChatSubmit")
                        /\ IsShow(ev[i + 5], SorryMessage)
                        /\ ev[i + 6].ev = "finally"

\* the enrichment call and then the fallback call have failed
C8_Witness ==
    \E t \in DOMAIN turns :
        /\ SearchCatches(t) # {}
        /\ Cardinality({i \in Positions(t) : IsResponse(EventsOf(t)[i], "rejected")}) = 2
        /\ ~isGenerating

-----------------------------------------------------------------------------
(* C9 *)

\* C9: an answer whose status is not 'success' is followed at once by one of
\* the two application-level messages, which differ from the transport
\* failure message; after it the turn shows no transport-failure message and
\* makes no call.
C9_NotSuccessIsApplicationError ==
    /\ SorryMessage \notin {ApiErrorMessage, ImageErrorMessage}
    /\ \A t \in DOMAIN turns :
          LET ev == EventsOf(t)
          IN  \A i \in Positions(t) :
                 IsResponse(ev[i], "not_success") =>
                    /\ Len(ev) > i
                    /\ IsShow(ev[i + 1], ApiErrorMessage) \/ IsShow(ev[i + 1], ImageErrorMessage)
                    /\ \A j \in Positions(t) :
                          (j > i) => /\ ev[j].ev # "call"
                                     /\ ~IsShow(ev[j], SorryMessage)
                                     /\ ev[j].ev \notin {"caught", "unhandled"}

\* an answer with another status has been handled and the turn has ended
C9_Witness ==
    \E t \in DOMAIN turns :
        /\ \E i \in Positions(t) : IsResponse(EventsOf(t)[i], "not_success")
        /\ \E i \in Positions(t) : EventsOf(t)[i].ev = "finally"

-----------------------------------------------------------------------------
(* C10 *)

Malformed == {"null_body", "success_without_text", "success_without_image"}

\* C10 as stated: a malformed answer, and a failure of a call made while an
\* answer is handled, is caught and followed by a failure message shown in the
\* chat; no error is left uncaught.
C10_EveryErrorCaughtAndShown ==
    \A t \in DOMAIN turns :
        LET ev == EventsOf(t)
        IN  \A i \in Positions(t) :
               /\ ev[i].ev # "unhandled"
               /\ (ev[i].ev = "response" /\ ev[i].text \in Malformed) =>
                     /\ Len(ev) > i + 1
                     /\ ev[i + 1].ev = "caught"
                     /\ ev[i + 2].ev = "show"
                     /\ ev[i + 2].text \in {SorryMessage, ApiErrorMessage, ImageErrorMessage}

-----------------------------------------------------------------------------
(* C11 *)

\* the contributions of the weighted sum, one per rule that applies
Contributions(f) ==
    {c \in { [rule |-> "short",       applies |-> f.words < 3,                     by |-> -20],
             [rule |-> "command",     applies |-> f.isCommand,                     by |-> -100],
             [rule |-> "creative",    applies |-> f.isCreativeRequest,             by |-> -50],
             [rule |-> "long",        applies |-> f.isQuestion /\ f.words > 4,     by |-> 10],
             [rule |-> "location",    applies |-> f.hasLocation /\ f.isQuestion,   by |-> 15],
             [rule |-> "stats",       applies |-> f.needsStats,                    by |-> 20],
             [rule |-> "comparative", applies |-> f.hasComparative,                by |-> 20],
             [rule |-> "entity",      applies |-> f.hasNamedEntity /\ f.isQuestion, by |-> 25],
             [rule |-> "event",       applies |-> f.isEventQuery,                  by |-> 35],
             [rule |-> "realtime",    applies |-> f.needsRealTimeData,             by |-> 35],
             [rule |-> "year",        applies |-> f.hasRecentYear,                 by |-> 30],
             [rule |-> "time",        applies |-> f.hasTimeIndicator,              by |-> 40] } :
        c.applies}

\* the sum of a set of contributions, taken in no particular order
RECURSIVE Total(_)
Total(cs) ==
    IF cs = {} THEN 0
    ELSE LET c == CHOOSE x \in cs : TRUE
         IN  c.by + Total(cs \ {c})

\* C11: the score logged for a query is the sum of the contributions of the
\* rules that apply to it, in whatever order they are added, the creative
\* penalty never applies together with a time indicator, and the value
\* returned is TRUE exactly when that sum is at least 30.
C11_WeightedSumDecides ==
    \A i \in 1..Len(consoleLog) :
        LET f == Features(consoleLog[i].query)
            total == Total(Contributions(f))
        IN  /\ consoleLog[i].score = total
            /\ consoleLog[i].search = (total >= 30)
            /\ f.isCreativeRequest => ~f.hasTimeIndicator

\* a query scored exactly at the threshold, by a penalty and two gains, is
\* searched
C11_Witness ==
    /\ consoleLog # <<>>
    /\ consoleLog[1].score = 30
    /\ consoleLog[1].search
    /\ Cardinality(Contributions(Features(consoleLog[1].query))) >= 2

-----------------------------------------------------------------------------
(* C12 *)

Normalized(query) == trim(toLowerCase(query))

\* C12: any two lines logged for texts that are equal once lowercased and
\* trimmed carry the same score and the same decision, whatever was typed in
\* between and whichever chat was current at each call.
C12_DecisionDependsOnNormalizedQueryOnly ==
    \A i, j \in 1..Len(consoleLog) :
        Normalized(consoleLog[i].query) = Normalized(consoleLog[j].query)
        => /\ consoleLog[i].score = consoleLog[j].score
           /\ consoleLog[i].search = consoleLog[j].search

\* a text that is searched was scored again in capitals or with blanks around
\* it, after a new chat was opened
C12_Witness ==
    /\ Len(consoleLog) = 2
    /\ consoleLog[1].query # consoleLog[2].query
    /\ consoleLog[1].search
    /\ consoleLog[2].search
    /\ currentChatId > 1

-----------------------------------------------------------------------------
(* C13 *)

MessagesOf(chats) == [id \in DOMAIN chats |-> chats[id].messages]

\* C13: a turn appended with addToHistory is added at the end of the current
\* session and leaves the turns of every other session as they were; creating,
\* loading and deleting leave the turns of every session that remains as they
\* were; what localStorage holds parses to the sessions in memory; and loading
\* the page again gives every session the turns it had, in their order, with
\* role and content unchanged.
C13_StoreRoundTrip ==
    [][ /\ (localStorage'.present /\ localStorage'.valid)
        /\ parse(localStorage'.blob) = allChats'
        /\ TurnAppended =>
              /\ DOMAIN allChats' = DOMAIN allChats
              /\ \E turn \in Appended :
                    allChats'[currentChatId].messages =
                       Append(allChats[currentChatId].messages, turn)
              /\ \A id \in DOMAIN allChats \ {currentChatId} :
                    allChats'[id].messages = allChats[id].messages
        /\ (NewChatClicked \/ HistoryItemClicked \/ DeleteClicked) =>
              \A id \in DOMAIN allChats \cap DOMAIN allChats' :
                 allChats'[id].messages = allChats[id].messages
        /\ Reloaded => MessagesOf(allChats') = MessagesOf(allChats)
      ]_vars

\* a session holds three turns, another session holds a turn and is the one
\* that loading the page makes current
C13_Witness ==
    \E id \in DOMAIN allChats :
        /\ id # currentChatId
        /\ Len(allChats[id].messages) = 3
        /\ allChats[id].messages[3].role = "assistant"
        /\ currentChatId = mostRecent(allChats)
        /\ conversationHistory # <<>>
        /\ parse(localStorage.blob) = allChats

-----------------------------------------------------------------------------
(* C14 *)

\* the messages that are image commands, what follows the prefix in each, and
\* the messages the scorer is called on
ImageCommands == {message \in Messages : isImageGen(message)}

AfterPrefix == [message \in ImageCommands |-> trim(substringFrom(message, 6))]

ImageCalls(t) == {i \in Positions(t) : EventsOf(t)[i].ev = "call" /\ EventsOf(t)[i].req.isImage}

\* C14: in a turn whose message starts with '/image', no lookup is started,
\* no search card is shown, the chat endpoint is not called, and the image
\* endpoint is called exactly once, with the trimmed text after the prefix
\* and neither the system preamble nor the conversation context; and no text
\* starting with '/image' is ever scored.
C14_ImageCommandBypassesSearch ==
    /\ \A i \in 1..Len(consoleLog) : consoleLog[i].query \notin ImageCommands
    /\ \A t \in DOMAIN turns :
          (turns[t].message \in ImageCommands) =>
             /\ ~Joined(t)
             /\ \A i \in Positions(t) :
                   /\ EventsOf(t)[i].ev \notin {"lookups", "card"}
                   /\ ~IsChatCall(EventsOf(t)[i])
             /\ Cardinality(ImageCalls(t)) = 1
             /\ \A i \in ImageCalls(t) :
                   EventsOf(t)[i].req =
                      [isImage |-> TRUE, system |-> FALSE, previous |-> <<>>,
                       user |-> RawPrompt(AfterPrefix[turns[t].message])]

\* an image command that the scorer would have searched has been answered
\* with an image and its turn has ended
C14_Witness ==
    \E t \in DOMAIN turns :
        /\ turns[t].message \in ImageCommands
        /\ shouldPerformWebSearch(turns[t].message)
        /\ \E i \in Positions(t) : EventsOf(t)[i].ev = "image"
        /\ \E i \in Positions(t) : EventsOf(t)[i].ev = "finally"

-----------------------------------------------------------------------------
(* C15 *)

\* C15: when a chat call is made, its conversation context is the last 10
\* turns of the history as it is then, or all of them when there are fewer,
\* in the history's order, each with the label of its role and its content;
\* and the step that makes the call changes the history by nothing but the
\* user turn that handleChatSubmit appends before it.
C15_ContextIsRecentWindow ==
    [][ \A call \in apiCalls' \ apiCalls :
          ~call.req.isImage =>
             LET h == conversationHistory'
                 p == call.req.previous
                 n == Len(h)
                 k == Len(p)
             IN  /\ k = (IF n > 10 THEN 10 ELSE n)
                 /\ \A i \in 1..k :
                       /\ p[i].content = h[n - k + i].content
                       /\ p[i].label = (IF h[n - k + i].role = "user" THEN "User" ELSE "Aero")
                 /\ \/ h = conversationHistory
                    \/ h = Append(conversationHistory,
                                  [role |-> "user", content |-> turns'[call.turn].message])
      ]_vars

\* a chat call is outstanding whose context holds 10 of the 13 turns of the
\* history
C15_Witness ==
    \E call \in apiCalls :
        /\ ~call.req.isImage
        /\ Len(call.req.previous) = 10
        /\ Len(conversationHistory) = 13
        /\ call.req.previous[1].content = conversationHistory[4].content

-----------------------------------------------------------------------------
(* C16 *)

\* C16 as stated: while isGenerating is false no call made for a turn is
\* outstanding, and calls are never outstanding for two turns at once.
C16_GuardCoversWholeTurn ==
    /\ ~isGenerating => apiCalls = {}
    /\ Cardinality(Acting(Cur)) <= 1

-----------------------------------------------------------------------------
(* C17 *)

AnswerShown(t) ==
    \E i \in Positions(t) :
        \/ EventsOf(t)[i].ev = "image"
        \/ /\ EventsOf(t)[i].ev = "show"
           /\ EventsOf(t)[i].text \notin
                 {SorryMessage, SearchErrorMessage, ApiErrorMessage, ImageErrorMessage}

\* C17 as stated: once the answer of a turn has been shown, the session the
\* turn was submitted in, if it still exists, ends with the user turn and the
\* assistant turn that answers it; and in every session an assistant turn
\* comes directly after a user turn of that session.
C17_AssistantTurnStaysInItsSession ==
    /\ \A t \in DOMAIN turns :
          (AnswerShown(t) /\ turns[t].chat \in DOMAIN allChats /\ t = turnCount) =>
             LET h == allChats[turns[t].chat].messages
             IN  /\ Len(h) >= 2
                 /\ h[Len(h)].role = "assistant"
                 /\ h[Len(h) - 1] = [role |-> "user", content |-> turns[t].message]
    /\ \A id \in DOMAIN allChats :
          \A i \in 1..Len(allChats[id].messages) :
             allChats[id].messages[i].role = "assistant" =>
                (i > 1 /\ allChats[id].messages[i - 1].role = "user")

-----------------------------------------------------------------------------
(* C19 *)

\* C19 as stated: the context of a chat call holds no line for the message
\* the call answers, which was not asked before in its session, and the call
\* made for the first message of an empty session has no context at all.
C19_ContextPrecedesQuery ==
    \A t \in DOMAIN turns :
        \A i \in Positions(t) :
            IsChatCall(EventsOf(t)[i]) =>
               LET previous == EventsOf(t)[i].req.previous
               IN  /\ \A j \in 1..Len(previous) :
                         previous[j] # [label |-> "User", content |-> turns[t].message]
                   /\ (t = 1) => previous = <<>>

-----------------------------------------------------------------------------
(* C18 *)

CurrentSessionLoaded ==
    /\ currentChatId \in DOMAIN allChats
    /\ conversationHistory = allChats[currentChatId].messages

\* C18: after startup and after every step, currentChatId is the id of a
\* session of allChats and conversationHistory is that session's turns; and a
\* step that deletes the current chat, or loads an id allChats does not hold,
\* ends with a session that did not exist before, holds no turn and is the
\* current one.
C18_CurrentSessionExists ==
    /\ CurrentSessionLoaded
    /\ [][ /\ CurrentSessionLoaded'
           /\ ((DeleteClicked /\ currentChatId \notin DOMAIN allChats') \/ MissingChatLoaded) =>
                 /\ currentChatId' \notin DOMAIN allChats
                 /\ currentChatId' \in DOMAIN allChats'
                 /\ allChats'[currentChatId'].messages = <<>>
                 /\ conversationHistory' = <<>>
         ]_vars

\* the chat in which a message was submitted has been deleted while it was
\* current, and a fresh empty session is the current one
C18_Witness ==
    /\ turnCount = 1
    /\ turns[1].chat \notin DOMAIN allChats
    /\ currentChatId \in DOMAIN allChats
    /\ currentChatId # turns[1].chat
    /\ conversationHistory = <<>>

====
